---- MODULE Spec2Model ----
(***************************************************************************)
(* The connection-and-request-correlation layer of the WFDL extension:     *)
(*   - WebSocketManager (src/server/server.js:475-777): the persistent     *)
(*     connection, its reconnection and heartbeat;                         *)
(*   - WFDLValidatorPopup (src/unnamed/part_001:7-485): the router that    *)
(*     answers 'wfdl_validation_request' frames.                           *)
(*                                                                         *)
(* The browser's WebSocket objects are the environment.  Each object the   *)
(* manager creates keeps its handlers for its whole life, so the model     *)
(* keeps every transport ever created, not only the one in this.ws.        *)
(* readyState changes and the event that reports them happen in one task   *)
(* (WHATWG WebSockets, "when the WebSocket connection is closed"): a       *)
(* failed connection fires error and then close in that task.  A closing   *)
(* handshake started by close(code) on an open transport ends with a close *)
(* event carrying that code (1005 when close() gave none) if the server    *)
(* completes it; if the connection is lost first, the transport fails and  *)
(* its close event carries 1006.  close() on a transport still CONNECTING  *)
(* fails it, and its close event carries 1006.                             *)
(***************************************************************************)
EXTENDS Integers, Sequences, FiniteSets, TLC

\* ---------------------------------------------------------------- bounds
MaxSockets == 4        \* WebSocket objects ever created (connection specification)
RouterSockets == 2     \* WebSocket objects ever created (router specification)
FlowSockets == 2       \* WebSocket objects ever created (concurrent flows)
MaxHeartbeats == 1     \* heartbeat interval callbacks that run
MaxRequests == 1       \* extraction requests ever received (router specification)
MaxFlows == 2          \* extraction requests ever received (concurrent flows)
MaxTabs == 2           \* browser tabs that exist at one time
ListenerSockets == 2   \* WebSocket objects ever created (listeners specification)
MaxListeners == 2      \* listeners a further client has registered at one time
ReconnectSockets == 3  \* WebSocket objects ever created (reconnection under fairness)
ExhaustSockets == 6    \* WebSocket objects ever created (exhaustion of the reconnects)

\* ----------------------------------------------------- program constants
maxReconnectAttempts == 3
CleanCode == 1000
NoStatusCode == 1005
AbnormalCode == 1006
GoingAwayCode == 1001

Null == 0
Undefined == "undefined"

\* Correlation ids the server uses: non-empty strings (the JSDoc of
\* sendValidationResult and executeDesignerValidation: {string} requestId).
RequestIds == {"r1", "r2"}

VARIABLES
  ws,                 \* this.ws: Null or the index of a transport
  isConnected,        \* this.isConnected
  reconnectAttempts,  \* this.reconnectAttempts
  heartbeatInterval,  \* this.heartbeatInterval: Null or an interval id
  connectionPromise,  \* this.connectionPromise: Null or the attempt whose promise it is
  sockets,            \* every WebSocket created, with the timeout and promise of its attempt
  intervals,          \* ids of the setInterval timers that are active
  reconnectTimers,    \* number of pending setTimeout callbacks of _attemptReconnection
  wire,               \* frames handed to an open transport, in order
  msgSeq,             \* number of send() calls so far (identifies each message)
  refused,            \* messages whose send() returned false
  op,                 \* the operation that ran last, with its result
  hbTicks,            \* heartbeat callbacks run so far
  uncleanRun,         \* unclean closes since the last successful open
  userClosed,         \* transports closed by a disconnect() issued while Connected
  autoRun,            \* connection attempts the reconnect timer has started since
                      \* the last successful open (or since start-up)
  flows,              \* the handleValidationRequest calls, in order of arrival; lost:
                      \* the connection left Connected while the call was in flight
  requestCount,       \* this.requestCount
  successCount,       \* this.successCount
  eventListeners,     \* this.eventListeners: for each kind, the listeners in registration order
  emits,              \* the _emitEvent calls of the last step, in order, each with
                      \* the number of send() calls made before it
  lastFrame,          \* what _handleMessage did in the last step: "none" (not
                      \* called), "malformed", "parsed", or "parsedAfterMalformed"
                      \* (parsed, the step before having dropped a malformed frame)
  contentScript,      \* the copy of the content script that the page runs
  clock,              \* Date.now() in the content script, counted in the instants
                      \* at which its value changes
  window,             \* the result slots on the page's window object
  calls,              \* the handleMessage calls of the content script, in order of arrival
  activityLog,        \* the child nodes of the popup's #activityLog element, in order
  logged              \* every element ever put into #activityLog, in insertion order

\* the content script's state and the popup's log, which no action of the
\* connection manager or of the router touches
contentVars == <<contentScript, clock, window, calls>>
logVars == <<activityLog, logged>>

\* the state of the connection manager and of the router
popupVars == <<ws, isConnected, reconnectAttempts, heartbeatInterval, connectionPromise,
               sockets, intervals, reconnectTimers, wire, msgSeq, refused,
               op, hbTicks, uncleanRun, userClosed, autoRun,
               flows, requestCount, successCount, eventListeners, emits, lastFrame>>

vars == <<popupVars, contentVars, logVars>>

\* The manager's fields and the transports' buffers as one value, so that
\* the handlers compose the way the calls in the source do.
M == [ws |-> ws, isConnected |-> isConnected, reconnectAttempts |-> reconnectAttempts,
      heartbeatInterval |-> heartbeatInterval, connectionPromise |-> connectionPromise,
      sockets |-> sockets, intervals |-> intervals, reconnectTimers |-> reconnectTimers,
      wire |-> wire, msgSeq |-> msgSeq, refused |-> refused,
      flows |-> flows, requestCount |-> requestCount, successCount |-> successCount,
      eventListeners |-> eventListeners, emits |-> <<>>,
      lastFrame |-> "none", prevFrame |-> lastFrame,
      ret |-> "none", retPromise |-> Null]

\* The spec's Connection.state = Connected: the manager holds itself
\* connected and its transport is open.
ConnectedIn(m) == m.isConnected /\ m.ws # Null /\ m.sockets[m.ws].readyState = "OPEN"

Install(m) ==
  /\ ws' = m.ws
  /\ isConnected' = m.isConnected
  /\ reconnectAttempts' = m.reconnectAttempts
  /\ heartbeatInterval' = m.heartbeatInterval
  /\ connectionPromise' = m.connectionPromise
  /\ sockets' = m.sockets
  /\ intervals' = m.intervals
  /\ reconnectTimers' = m.reconnectTimers
  /\ wire' = m.wire
  /\ msgSeq' = m.msgSeq
  /\ refused' = m.refused
  /\ flows' = [f \in 1..Len(m.flows) |->
                 [m.flows[f] EXCEPT !.lost = @ \/ (m.flows[f].pc # "done" /\ ~ConnectedIn(m))]]
  /\ requestCount' = m.requestCount
  /\ successCount' = m.successCount
  /\ eventListeners' = m.eventListeners
  /\ emits' = m.emits
  /\ lastFrame' = m.lastFrame

Op(n, s, r, p, c) == [name |-> n, sock |-> s, ret |-> r, promise |-> p, code |-> c]

Connected == ConnectedIn(M)

\* A handshake of the manager's current transport is in progress.
Connecting == ~isConnected /\ ws # Null /\ sockets[ws].readyState = "CONNECTING"

Live(t) == sockets[t].readyState \in {"CONNECTING", "OPEN", "CLOSING"}

\* ------------------------------------------------------------ listeners
Kinds == {"open", "close", "error", "message"}

\* What a listener does when it is called: the popup's listener of that
\* kind (setupWebSocketHandlers), or a listener of another client of on()
\* that returns, throws an Error, or throws null / undefined.
PopupListener == "popup"
Returns == "returns"
ThrowsError == "throwsError"
ThrowsNull == "throwsNull"
ClientListeners == {Returns, ThrowsError, ThrowsNull}

\* The catch block of _emitEvent reads error.message: that throws a
\* TypeError when the value thrown is null or undefined, and the TypeError
\* leaves forEach.
escapes(m, kind) ==
  \E i \in 1..Len(m.eventListeners[kind]) : m.eventListeners[kind][i] = ThrowsNull

\* The listeners forEach reaches, by position
calledListeners(m, kind) ==
  LET ls == m.eventListeners[kind]
      bad == {i \in 1..Len(ls) : ls[i] = ThrowsNull}
      last == IF bad = {} THEN Len(ls) ELSE CHOOSE i \in bad : \A j \in bad : i <= j
  IN [i \in 1..last |-> i]

_emitEvent(m, kind) ==
  [m EXCEPT !.emits = Append(@, [kind |-> kind, called |-> calledListeners(m, kind),
                                 thrown |-> escapes(m, kind), sent |-> m.msgSeq])]

on(m, kind, callback) == [m EXCEPT !.eventListeners[kind] = Append(@, callback)]

off(m, kind, callback) ==
  LET ls == m.eventListeners[kind]
      at == {i \in 1..Len(ls) : ls[i] = callback}
  IN IF at = {} THEN m
     ELSE LET index == CHOOSE i \in at : \A j \in at : i <= j
          IN [m EXCEPT !.eventListeners[kind] =
                         SubSeq(ls, 1, index - 1) \o SubSeq(ls, index + 1, Len(ls))]

\* ------------------------------------------------------------ transport
\* WebSocket.close(code) of the browser: no effect once closing or closed;
\* a CONNECTING transport is failed (its close event will carry 1006).
wsClose(m, t, code) ==
  IF m.sockets[t].readyState = "OPEN"
    THEN [m EXCEPT !.sockets[t].readyState = "CLOSING", !.sockets[t].closeCode = code]
  ELSE IF m.sockets[t].readyState = "CONNECTING"
    THEN [m EXCEPT !.sockets[t].readyState = "CLOSING",
                   !.sockets[t].closeCode = AbnormalCode]
  ELSE m

\* resolve / reject of the promise of attempt t: the first settlement wins.
settle(m, t, outcome) ==
  IF m.sockets[t].promise = "pending"
    THEN [m EXCEPT !.sockets[t].promise = outcome] ELSE m

clearTimeout(m, t) == [m EXCEPT !.sockets[t].timeout = FALSE]

clearHeartbeat(m) ==
  IF m.heartbeatInterval # Null
    THEN [m EXCEPT !.intervals = @ \ {m.heartbeatInterval}, !.heartbeatInterval = Null]
    ELSE m

\* ----------------------------------------------------------------- send
Frame(type, requestId, flow, success, error) ==
  [type |-> type, requestId |-> requestId, flow |-> flow, success |-> success,
   error |-> error, n |-> 0, sock |-> Null]

\* send without the isConnected test
send_noConnectedCheck(m, frame) ==
  LET n == m.msgSeq + 1
      m1 == [m EXCEPT !.msgSeq = n]
  IN IF m.ws = Null
       THEN [m1 EXCEPT !.refused = @ \cup {n}, !.ret = "false"]
     ELSE IF m.sockets[m.ws].readyState = "CONNECTING"
       THEN [m1 EXCEPT !.refused = @ \cup {n}, !.ret = "false"]
     ELSE IF m.sockets[m.ws].readyState = "OPEN"
       THEN [m1 EXCEPT !.wire = Append(@, [frame EXCEPT !.n = n, !.sock = m.ws]),
                       !.ret = "true"]
     ELSE [m1 EXCEPT !.ret = "true"]

\* send counting a refused message as a failed connection attempt
send_countsFailure(m, frame) ==
  LET n == m.msgSeq + 1
      m1 == [m EXCEPT !.msgSeq = n]
  IN IF ~m.isConnected \/ m.ws = Null
       THEN [m1 EXCEPT !.refused = @ \cup {n}, !.ret = "false",
                       !.reconnectAttempts = @ + 1]
     ELSE IF m.sockets[m.ws].readyState = "CONNECTING"
       THEN [m1 EXCEPT !.refused = @ \cup {n}, !.ret = "false"]
     ELSE IF m.sockets[m.ws].readyState = "OPEN"
       THEN [m1 EXCEPT !.wire = Append(@, [frame EXCEPT !.n = n, !.sock = m.ws]),
                       !.ret = "true"]
     ELSE [m1 EXCEPT !.ret = "true"]

\* WebSocketManager.send.  WebSocket.send throws while the transport is
\* CONNECTING (caught: false) and silently discards the data once the
\* transport is closing or closed (no exception: true).
send(m, frame) ==
  LET n == m.msgSeq + 1
      m1 == [m EXCEPT !.msgSeq = n]
  IN IF ~m.isConnected \/ m.ws = Null
       THEN [m1 EXCEPT !.refused = @ \cup {n}, !.ret = "false"]
     ELSE IF m.sockets[m.ws].readyState = "CONNECTING"
       THEN [m1 EXCEPT !.refused = @ \cup {n}, !.ret = "false"]
     ELSE IF m.sockets[m.ws].readyState = "OPEN"
       THEN [m1 EXCEPT !.wire = Append(@, [frame EXCEPT !.n = n, !.sock = m.ws]),
                       !.ret = "true"]
     ELSE [m1 EXCEPT !.ret = "true"]

\* -------------------------------------------------------------- connect
_attemptConnection(m) ==
  LET t == Len(m.sockets) + 1
  IN [m EXCEPT !.sockets = Append(@, [readyState |-> "CONNECTING", closeCode |-> 0,
                                      timeout |-> TRUE, promise |-> "pending"]),
               !.ws = t, !.ret = "promise", !.retPromise = t]

\* connect without the isConnected test
connect_noConnectedCheck(m) ==
  IF m.connectionPromise # Null
    THEN [m EXCEPT !.ret = "promise", !.retPromise = m.connectionPromise]
  ELSE LET m1 == _attemptConnection(m)
       IN [m1 EXCEPT !.connectionPromise = m1.retPromise]

connect(m) ==
  IF m.isConnected
    THEN [m EXCEPT !.ret = "true"]
  ELSE IF m.connectionPromise # Null
    THEN [m EXCEPT !.ret = "promise", !.retPromise = m.connectionPromise]
  ELSE LET m1 == _attemptConnection(m)
       IN [m1 EXCEPT !.connectionPromise = m1.retPromise]

\* connect() opens a transport only in its last branch.
connectOpens(m) == ~m.isConnected /\ m.connectionPromise = Null

\* disconnect without its early return
disconnect_noGuard(m) ==
  IF m.ws = Null
    THEN [m EXCEPT !.ret = "noop"]
    ELSE LET m1 == wsClose(clearHeartbeat(m), m.ws, CleanCode)
         IN [m1 EXCEPT !.isConnected = FALSE, !.connectionPromise = Null,
                       !.ret = "closed"]

\* disconnect closing the transport without a status code
disconnect_noCode(m) ==
  IF ~m.isConnected \/ m.ws = Null
    THEN [m EXCEPT !.ret = "noop"]
    ELSE LET m1 == wsClose(clearHeartbeat(m), m.ws, NoStatusCode)
         IN [m1 EXCEPT !.isConnected = FALSE, !.connectionPromise = Null,
                       !.ret = "closed"]

disconnect(m) ==
  IF ~m.isConnected \/ m.ws = Null
    THEN [m EXCEPT !.ret = "noop"]
    ELSE LET m1 == wsClose(clearHeartbeat(m), m.ws, CleanCode)
         IN [m1 EXCEPT !.isConnected = FALSE, !.connectionPromise = Null,
                       !.ret = "closed"]

_registerExtension(m) == send(m, Frame("register", Undefined, Null, TRUE, ""))

\* setInterval returns a fresh id; the id of the transport whose onopen
\* started the timer is used for it.
_startHeartbeat(m, t) ==
  [m EXCEPT !.heartbeatInterval = t, !.intervals = @ \cup {t}]

\* _attemptReconnection counting the attempt without setting the timer
_attemptReconnection_noTimer(m) ==
  IF m.reconnectAttempts >= maxReconnectAttempts
    THEN m
    ELSE [m EXCEPT !.reconnectAttempts = @ + 1]

\* _attemptReconnection comparing with > instead of >=
_attemptReconnection_offByOne(m) ==
  IF m.reconnectAttempts > maxReconnectAttempts
    THEN m
    ELSE [m EXCEPT !.reconnectAttempts = @ + 1, !.reconnectTimers = @ + 1]

_attemptReconnection(m) ==
  IF m.reconnectAttempts >= maxReconnectAttempts
    THEN m
    ELSE [m EXCEPT !.reconnectAttempts = @ + 1, !.reconnectTimers = @ + 1]

\* ws.onopen of attempt t
onopen(m, t) ==
  LET m1 == clearTimeout(m, t)
      m2 == [m1 EXCEPT !.isConnected = TRUE, !.reconnectAttempts = 0,
                       !.connectionPromise = Null]
      m3 == _startHeartbeat(_registerExtension(m2), t)
      m4 == _emitEvent(m3, "open")
  IN IF escapes(m3, "open") THEN m4 ELSE settle(m4, t, "true")

\* onclose resetting the counter on a clean close
onclose_resetsCounter(m, t, code) ==
  LET m1 == clearTimeout(m, t)
      m2 == clearHeartbeat([m1 EXCEPT !.isConnected = FALSE, !.connectionPromise = Null])
      m3 == _emitEvent(m2, "close")
      m4 == IF code # CleanCode THEN _attemptReconnection(m3)
                                ELSE [m3 EXCEPT !.reconnectAttempts = 0]
  IN IF escapes(m2, "close") THEN m3 ELSE settle(m4, t, "false")

\* ws.onclose of attempt t
onclose(m, t, code) ==
  LET m1 == clearTimeout(m, t)
      m2 == clearHeartbeat([m1 EXCEPT !.isConnected = FALSE, !.connectionPromise = Null])
      m3 == _emitEvent(m2, "close")
      m4 == IF code # CleanCode THEN _attemptReconnection(m3) ELSE m3
  IN IF escapes(m2, "close") THEN m3 ELSE settle(m4, t, "false")

\* ws.onerror of attempt t
onerror(m, t) ==
  LET m1 == clearTimeout(m, t)
      m2 == [m1 EXCEPT !.isConnected = FALSE, !.connectionPromise = Null]
      m3 == _emitEvent(m2, "error")
  IN IF escapes(m2, "error") THEN m3 ELSE settle(m3, t, "rejected")

\* the setTimeout callback of attempt t (connectionTimeout)
connectionTimeout(m, t) ==
  LET m1 == clearTimeout(m, t)
  IN settle(wsClose(m1, m.ws, NoStatusCode), t, "rejected")

\* ---------------------------------------------------------------- tabs
\* The URLs a tab can show, one for each way the two tests of config.js
\* can come out.
DesignerUrl == "https://site.design.webflow.com/"     \* pattern and isDesignerPage
DashboardUrl == "https://webflow.com/dashboard"       \* pattern only
PlainHttpUrl == "http://site.wfdev.io/"               \* isDesignerPage only
OtherUrl == "https://example.com/"                    \* neither
Urls == {DesignerUrl, DashboardUrl, PlainHttpUrl, OtherUrl}

\* CONFIG.designerUrls.patterns as chrome.tabs.query matches them
matchesPatterns(url) == url \in {DesignerUrl, DashboardUrl}

\* CONFIG.designerUrls.isDesignerPage
isDesignerPage(url) == url \in {DesignerUrl, PlainHttpUrl}

TabFields == [active : BOOLEAN, currentWindow : BOOLEAN,
              status : {"complete", "loading"}, discarded : BOOLEAN, url : Urls]

\* A tab that is not discarded; the active tab is that of the current window.
Tab(active, status, url) ==
  [active |-> active, currentWindow |-> active, status |-> status,
   discarded |-> FALSE, url |-> url]

\* The tabs of the browser in its order; a tab's id is its position.  A
\* window has one active tab, and one window is the current one; the
\* browser discards background tabs only.
TabLists ==
  UNION {{tabs \in [1..n -> TabFields] :
            /\ Cardinality({i \in 1..n : tabs[i].active /\ tabs[i].currentWindow}) <= 1
            /\ \A i \in 1..n : tabs[i].active => ~tabs[i].discarded}
         : n \in 0..MaxTabs}

\* The ids of the tabs that pass a test, in the browser's order; test[i]
\* tells whether tab i passes.
tabIds(tabs, test) ==
  LET F[i \in 0..Len(tabs)] ==
        IF i = 0 THEN <<>>
        ELSE IF test[i] THEN Append(F[i - 1], i) ELSE F[i - 1]
  IN F[Len(tabs)]

NoLoadedTabs == "No loaded Designer tabs found - please refresh Designer page"
NoDesignerTabs == "No Webflow Designer tabs found - validation requires Designer page"

Found(id) == [ok |-> TRUE, tabId |-> id, error |-> ""]
Thrown(msg) == [ok |-> FALSE, tabId |-> Null, error |-> msg]

findDesignerTab(tabs) ==
  LET isActive(tab) == tab.active /\ tab.currentWindow
      isPattern(tab) == matchesPatterns(tab.url)
      isLoaded(tab) == /\ matchesPatterns(tab.url)
                       /\ tab.status = "complete"
                       /\ ~tab.discarded
                       /\ isDesignerPage(tab.url)
      activeTab == tabIds(tabs, [i \in 1..Len(tabs) |-> isActive(tabs[i])])
      designerTabs == tabIds(tabs, [i \in 1..Len(tabs) |-> isPattern(tabs[i])])
      loadedTabs == tabIds(tabs, [i \in 1..Len(tabs) |-> isLoaded(tabs[i])])
  IN IF Len(activeTab) > 0 /\ isDesignerPage(tabs[activeTab[1]].url)
       THEN Found(activeTab[1])
     ELSE IF Len(designerTabs) = 0 THEN Thrown(NoDesignerTabs)
     ELSE IF Len(loadedTabs) = 0 THEN Thrown(NoLoadedTabs)
     ELSE Found(loadedTabs[1])

\* What findDesignerTab can return or throw.
FindResults == {findDesignerTab(tabs) : tabs \in TabLists}

\* What chrome.tabs.get and chrome.scripting.executeScript find when the
\* validation runs: the tab as it is then, and how the injected getWFDL ends.
TabStates == {"gone", "loading", "discarded", "complete"}
ScriptEnds == {"rejectsNoReceiver", "rejectsTimeout", "rejects", "noResult",
               "failsWithError", "failsWithoutError", "succeeds"}

NotLoaded == "Designer validation failed: Designer tab is not fully loaded (status: loading)"
Discarded == "Designer validation failed: Designer tab has been discarded - please refresh the page"
NoTab == "Designer validation failed: No tab with id"
NoReceiver == "Cannot communicate with Designer page - content script not loaded. Please refresh the Designer page and try again."
TimedOut == "Designer page validation timed out - page may be busy or unresponsive"
Rejected == "Designer validation failed: Cannot access contents of the page"
NoResult == "Designer validation failed: No result from script execution"
ScriptError == "Designer validation failed: wf.exportTrainingData not available in page context"
NoScriptError == "Designer validation failed: Validation execution failed"

\* executeDesignerValidation rethrowing what it caught, and throwing
\* result.error as it is
executeDesignerValidation_rethrows(tab, script) ==
  IF tab = "gone" THEN Thrown("No tab with id")
  ELSE IF tab = "loading" THEN Thrown(NotLoaded)
  ELSE IF tab = "discarded" THEN Thrown(Discarded)
  ELSE IF script = "rejectsNoReceiver" THEN Thrown(NoReceiver)
  ELSE IF script = "rejectsTimeout" THEN Thrown(TimedOut)
  ELSE IF script = "rejects" THEN Thrown(Rejected)
  ELSE IF script = "noResult" THEN Thrown(NoResult)
  ELSE IF script = "failsWithError" THEN Thrown(ScriptError)
  ELSE IF script = "failsWithoutError" THEN Thrown("")
  ELSE [ok |-> TRUE, tabId |-> Null, error |-> ""]

executeDesignerValidation(tab, script) ==
  IF tab = "gone" THEN Thrown(NoTab)
  ELSE IF tab = "loading" THEN Thrown(NotLoaded)
  ELSE IF tab = "discarded" THEN Thrown(Discarded)
  ELSE IF script = "rejectsNoReceiver" THEN Thrown(NoReceiver)
  ELSE IF script = "rejectsTimeout" THEN Thrown(TimedOut)
  ELSE IF script = "rejects" THEN Thrown(Rejected)
  ELSE IF script = "noResult" THEN Thrown(NoResult)
  ELSE IF script = "failsWithError" THEN Thrown(ScriptError)
  ELSE IF script = "failsWithoutError" THEN Thrown(NoScriptError)
  ELSE [ok |-> TRUE, tabId |-> Null, error |-> ""]

\* The tab as chrome.tabs.get finds it when nothing changed since the
\* locator read it.
tabState(tab) ==
  IF tab.status # "complete" THEN "loading"
  ELSE IF tab.discarded THEN "discarded"
  ELSE "complete"

\* The popup's target selection: findDesignerTab, then the readiness checks
\* of executeDesignerValidation on the tab it returned.
popupSelection(tabs) ==
  LET found == findDesignerTab(tabs)
  IN IF ~found.ok THEN found
     ELSE LET ready == executeDesignerValidation(tabState(tabs[found.tabId]), "succeeds")
          IN IF ready.ok THEN found ELSE ready

NoDesignerTabsBackground == "No Webflow Designer tabs found"

\* The background's target selection (handleGetWFDLRequest up to sendMessage)
handleGetWFDLRequest(tabs) ==
  LET isPattern(tab) == matchesPatterns(tab.url)
      isLoaded(tab) == /\ matchesPatterns(tab.url)
                       /\ tab.status = "complete"
                       /\ ~tab.discarded
                       /\ isDesignerPage(tab.url)
      designerTabs == tabIds(tabs, [i \in 1..Len(tabs) |-> isPattern(tabs[i])])
      loadedTabs == tabIds(tabs, [i \in 1..Len(tabs) |-> isLoaded(tabs[i])])
      activeLoaded == tabIds(tabs, [i \in 1..Len(tabs) |-> isLoaded(tabs[i]) /\ tabs[i].active])
  IN IF Len(designerTabs) = 0 THEN Thrown(NoDesignerTabsBackground)
     ELSE IF Len(loadedTabs) = 0 THEN Thrown(NoLoadedTabs)
     ELSE IF Len(activeLoaded) > 0 THEN Found(activeLoaded[1])
     ELSE Found(loadedTabs[1])

\* --------------------------------------------------------------- router
\* JavaScript's a || b on values that are undefined or non-empty strings
orElse(a, b) == IF a # Undefined THEN a ELSE b

\* The keys of the result object a response carries: formattedResult of
\* executeDesignerValidation, or the object literal of the catch block of
\* handleValidationRequest.
formattedResult ==
  {"success", "requestId", "validationResult", "source", "context", "timestamp"}
errorResult == {"success", "error", "requestId"}

resultKeys(success) == IF success THEN formattedResult ELSE errorResult

NoResponse == [requestId |-> Undefined, success |-> FALSE, error |-> "", ret |-> "none",
               result |-> {}]

\* sendValidationResult leaving the requestId out of the frame
sendValidationResult_noId(m, f, requestId, success, error) ==
  LET m1 == send(m, Frame("validation_result", Undefined, f, success, error))
  IN [m1 EXCEPT !.flows[f].sends = @ + 1,
                !.flows[f].response = [requestId |-> Undefined, success |-> success,
                                       error |-> error, ret |-> m1.ret,
                                       result |-> resultKeys(success)]]

\* sendValidationResult handing its frame to send twice
sendValidationResult_again(m, f, requestId, success, error) ==
  LET m1 == send(m, Frame("validation_result", requestId, f, success, error))
      m2 == send(m1, Frame("validation_result", requestId, f, success, error))
  IN [m2 EXCEPT !.flows[f].sends = @ + 1,
                !.flows[f].response = [requestId |-> requestId, success |-> success,
                                       error |-> error, ret |-> m1.ret,
                                       result |-> resultKeys(success)]]

\* sendValidationResult, called by flow f
sendValidationResult(m, f, requestId, success, error) ==
  LET m1 == send(m, Frame("validation_result", requestId, f, success, error))
  IN [m1 EXCEPT !.flows[f].sends = @ + 1,
                !.flows[f].response = [requestId |-> requestId, success |-> success,
                                       error |-> error, ret |-> m1.ret,
                                       result |-> resultKeys(success)]]

\* a router that drops a request whose requestId is that of a request
\* still in flight
handleValidationRequest_dedupes(m, message) ==
  IF \E g \in 1..Len(m.flows) :
       m.flows[g].pc # "done" /\ m.flows[g].requestId = message.requestId
    THEN [m EXCEPT !.requestCount = @ + 1]
    ELSE [m EXCEPT !.requestCount = @ + 1,
                   !.flows = Append(@, [requestId |-> message.requestId, id |-> message.id,
                                        pc |-> "findDesignerTab", tabId |-> Null,
                                        sends |-> 0, response |-> NoResponse,
                                        lost |-> FALSE, tabs |-> <<>>])]

\* handleValidationRequest up to its first await
handleValidationRequest(m, message) ==
  [m EXCEPT !.requestCount = @ + 1,
            !.flows = Append(@, [requestId |-> message.requestId, id |-> message.id,
                                 pc |-> "findDesignerTab", tabId |-> Null,
                                 sends |-> 0, response |-> NoResponse,
                                 lost |-> FALSE, tabs |-> <<>>])]

\* a catch block that only logs
catchBlock_noSend(m, f, error) == [m EXCEPT !.flows[f].pc = "done"]

\* a catch block that gives the connection up after answering
catchBlock_disconnects(m, f, error) ==
  LET m1 == sendValidationResult(m, f, m.flows[f].requestId, FALSE, error)
  IN disconnect([m1 EXCEPT !.flows[f].pc = "done"])

\* the catch block of handleValidationRequest
catchBlock(m, f, error) ==
  LET m1 == sendValidationResult(m, f, m.flows[f].requestId, FALSE, error)
  IN [m1 EXCEPT !.flows[f].pc = "done"]

\* a router that takes up a request's result only once every earlier
\* request has been answered
afterFindDesignerTab_serialized(m, f, found) ==
  IF \E g \in 1..(f - 1) : m.flows[g].pc # "done" THEN m
  ELSE IF found.ok
    THEN [m EXCEPT !.flows[f].pc = "executeDesignerValidation",
                   !.flows[f].tabId = found.tabId]
    ELSE catchBlock(m, f, found.error)

\* handleValidationRequest from the return of findDesignerTab to the next await
afterFindDesignerTab(m, f, found) ==
  IF found.ok
    THEN [m EXCEPT !.flows[f].pc = "executeDesignerValidation",
                   !.flows[f].tabId = found.tabId]
    ELSE catchBlock(m, f, found.error)

\* a flow that stays in flight when its send returned false
afterExecuteDesignerValidation_waits(m, f, result) ==
  LET m1 == IF result.ok
              THEN sendValidationResult([m EXCEPT !.successCount = @ + 1], f,
                                        orElse(m.flows[f].requestId, m.flows[f].id), TRUE, "")
              ELSE sendValidationResult(m, f, m.flows[f].requestId, FALSE, result.error)
  IN IF m1.ret = "false" THEN m1 ELSE [m1 EXCEPT !.flows[f].pc = "done"]

\* handleValidationRequest from the return of executeDesignerValidation on
afterExecuteDesignerValidation(m, f, result) ==
  IF result.ok
    THEN LET requestId == orElse(m.flows[f].requestId, m.flows[f].id)
             m1 == [m EXCEPT !.successCount = @ + 1]
             m2 == sendValidationResult(m1, f, requestId, TRUE, "")
         IN [m2 EXCEPT !.flows[f].pc = "done"]
    ELSE catchBlock(m, f, result.error)

\* Inbound frames: text that does not parse, or a message object.
Message(type, requestId, id) ==
  [parses |-> TRUE, type |-> type, requestId |-> requestId, id |-> id]
Malformed == [parses |-> FALSE, type |-> Undefined, requestId |-> Undefined, id |-> Undefined]

RequestFrames ==
  {Message("wfdl_validation_request", r, i) : r \in {"r1", Undefined}, i \in {"r2", Undefined}}

\* Requests that carry their correlation id in requestId only
RequestIdFrames ==
  {Message("wfdl_validation_request", r, Undefined) : r \in RequestIds}
OtherFrames ==
  {Malformed} \cup
  {Message(type, Undefined, Undefined) :
     type \in {"registered", "heartbeat_ack", "ack", "error", "unknown"}}

\* handleWebSocketMessage routing every kind of message as a request
handleWebSocketMessage_anyType(m, message) == handleValidationRequest(m, message)

\* WFDLValidatorPopup.handleWebSocketMessage
handleWebSocketMessage(m, message) ==
  IF message.type = "wfdl_validation_request"
    THEN handleValidationRequest(m, message)
    ELSE m

\* _handleMessage without its try / catch around JSON.parse: the listeners
\* are called whatever the data
_handleMessage_noParse(m, data) ==
  handleWebSocketMessage(_emitEvent([m EXCEPT !.lastFrame =
                                       IF data.parses THEN "parsed" ELSE "malformed"],
                                    "message"), data)

\* WebSocketManager._handleMessage: a TypeError that leaves _emitEvent is
\* caught by its own catch block.  The popup's 'message' listener is
\* handleWebSocketMessage.
_handleMessage(m, data) ==
  IF ~data.parses THEN [m EXCEPT !.lastFrame = "malformed"]
  ELSE LET m0 == [m EXCEPT !.lastFrame = IF m.prevFrame = "malformed"
                                           THEN "parsedAfterMalformed" ELSE "parsed"]
           m1 == _emitEvent(m0, "message")
           called == calledListeners(m, "message")
       IN IF \E i \in DOMAIN called : m.eventListeners["message"][i] = PopupListener
            THEN handleWebSocketMessage(m1, data)
            ELSE m1

\* A window object without result slots
NoSlots == [id \in {} |-> Undefined]

\* The content script has received nothing yet.
ContentIdle ==
  /\ contentScript = "part_003"
  /\ clock = 0
  /\ window = NoSlots
  /\ calls = <<>>

\* The popup has logged nothing yet.
LogIdle ==
  /\ activityLog = <<>>
  /\ logged = <<>>

\* ============================================================== actions
\* the popup after construction
PopupInit ==
  /\ ws = Null
  /\ isConnected = FALSE
  /\ reconnectAttempts = 0
  /\ heartbeatInterval = Null
  /\ connectionPromise = Null
  /\ sockets = <<>>
  /\ intervals = {}
  /\ reconnectTimers = 0
  /\ wire = <<>>
  /\ msgSeq = 0
  /\ refused = {}
  /\ op = Op("init", Null, "none", Null, 0)
  /\ hbTicks = 0
  /\ uncleanRun = 0
  /\ userClosed = {}
  /\ autoRun = 0
  /\ flows = <<>>
  /\ requestCount = 0
  /\ successCount = 0
  /\ eventListeners = [kind \in Kinds |-> <<PopupListener>>]
  /\ emits = <<>>
  /\ lastFrame = "none"

Init ==
  /\ PopupInit
  /\ ContentIdle
  /\ LogIdle

\* connect() called by the popup (button or the start-up timer)
Connect(maxS) ==
  /\ connectOpens(M) => Len(sockets) < maxS
  /\ LET m == connect(M)
     IN /\ Install(m)
        /\ op' = Op("connect", IF Len(m.sockets) > Len(sockets) THEN m.ws ELSE Null,
                    m.ret, m.retPromise, 0)
  /\ UNCHANGED <<hbTicks, uncleanRun, userClosed, autoRun, contentVars, logVars>>

\* disconnect() called by the popup
Disconnect ==
  /\ LET m == disconnect(M)
     IN /\ Install(m)
        /\ op' = Op("disconnect", IF m.ret = "closed" THEN ws ELSE Null, m.ret, Null, 0)
  /\ userClosed' = IF Connected THEN userClosed \cup {ws} ELSE userClosed
  /\ UNCHANGED <<hbTicks, uncleanRun, autoRun, contentVars, logVars>>

\* the handshake of transport t succeeds
SocketOpen(t) ==
  /\ sockets[t].readyState = "CONNECTING"
  /\ LET m == onopen([M EXCEPT !.sockets[t].readyState = "OPEN"], t)
     IN Install(m)
  /\ op' = Op("open", t, "none", Null, 0)
  /\ uncleanRun' = 0
  /\ autoRun' = 0
  /\ UNCHANGED <<hbTicks, userClosed, contentVars, logVars>>

\* transport t closes without failure: the closing handshake the manager
\* started completes, or the server closes an open transport with `code`
SocketClose(t, code) ==
  /\ \/ sockets[t].readyState = "CLOSING" /\ code = sockets[t].closeCode
                                          /\ code # AbnormalCode
     \/ sockets[t].readyState = "OPEN" /\ code \in {CleanCode, GoingAwayCode}
  /\ LET m == onclose([M EXCEPT !.sockets[t].readyState = "CLOSED"], t, code)
     IN Install(m)
  /\ op' = Op("close", t, "none", Null, code)
  /\ uncleanRun' = IF code # CleanCode THEN uncleanRun + 1 ELSE uncleanRun
  /\ UNCHANGED <<hbTicks, userClosed, autoRun, contentVars, logVars>>

\* transport t fails (handshake refused, close() during the handshake, or
\* connection lost, be it during a closing handshake): error, then close
\* with 1006, in one task
SocketFail(t) ==
  /\ Live(t)
  /\ LET m1 == onerror([M EXCEPT !.sockets[t].readyState = "CLOSED"], t)
         m == onclose(m1, t, AbnormalCode)
     IN Install(m)
  /\ op' = Op("fail", t, "none", Null, AbnormalCode)
  /\ uncleanRun' = uncleanRun + 1
  /\ UNCHANGED <<hbTicks, userClosed, autoRun, contentVars, logVars>>

\* the connection timeout of attempt t fires
ConnectionTimeout(t) ==
  /\ sockets[t].timeout
  /\ Install(connectionTimeout(M, t))
  /\ op' = Op("timeout", t, "none", Null, 0)
  /\ UNCHANGED <<hbTicks, uncleanRun, userClosed, autoRun, contentVars, logVars>>

\* the reconnect timer fires
ReconnectTimer(maxS) ==
  /\ reconnectTimers > 0
  /\ connectOpens(M) => Len(sockets) < maxS
  /\ LET m0 == [M EXCEPT !.reconnectTimers = @ - 1]
         m == IF ~m0.isConnected THEN connect(m0) ELSE [m0 EXCEPT !.ret = "skipped"]
     IN /\ Install(m)
        /\ op' = Op("reconnectTimer", IF Len(m.sockets) > Len(sockets) THEN m.ws ELSE Null,
                    m.ret, m.retPromise, 0)
        /\ autoRun' = IF Len(m.sockets) > Len(sockets) THEN autoRun + 1 ELSE autoRun
  /\ UNCHANGED <<hbTicks, uncleanRun, userClosed, contentVars, logVars>>

\* a heartbeat interval timer fires
Heartbeat(i) ==
  /\ i \in intervals
  /\ hbTicks < MaxHeartbeats
  /\ hbTicks' = hbTicks + 1
  /\ LET m == IF isConnected THEN send(M, Frame("heartbeat", Undefined, Null, TRUE, ""))
                             ELSE [M EXCEPT !.ret = "skipped"]
     IN /\ Install(m)
        /\ op' = Op("heartbeat", i, m.ret, Null, 0)
  /\ UNCHANGED <<uncleanRun, userClosed, autoRun, contentVars, logVars>>

\* a frame arrives on transport t
SocketMessage(t, data, maxR) ==
  /\ sockets[t].readyState \in {"OPEN", "CLOSING"}
  /\ data.type = "wfdl_validation_request" => Len(flows) < maxR
  /\ Install(_handleMessage(M, data))
  /\ op' = [Op("message", t, "none", Null, 0) EXCEPT !.ret = data.type]
  /\ UNCHANGED <<hbTicks, uncleanRun, userClosed, autoRun, contentVars, logVars>>

\* the locator call of flow f returns or throws, the browser's tabs being
\* `tabs` when chrome.tabs.query reads them
FindDesignerTabReturns(f, tabs) ==
  /\ flows[f].pc = "findDesignerTab"
  /\ LET found == findDesignerTab(tabs)
     IN /\ Install(afterFindDesignerTab([M EXCEPT !.flows[f].tabs = tabs], f, found))
        /\ op' = Op("findDesignerTab", f, IF found.ok THEN "found" ELSE "thrown", Null, 0)
  /\ UNCHANGED <<hbTicks, uncleanRun, userClosed, autoRun, contentVars, logVars>>

\* the sandbox call of flow f returns or throws
ExecuteReturns(f, result) ==
  /\ flows[f].pc = "executeDesignerValidation"
  /\ Install(afterExecuteDesignerValidation(M, f, result))
  /\ op' = Op("executeDesignerValidation", f,
              IF result.ok THEN "returned" ELSE "thrown", Null, 0)
  /\ UNCHANGED <<hbTicks, uncleanRun, userClosed, autoRun, contentVars, logVars>>

\* a client registers a listener with on()
On(kind, callback) ==
  /\ Len(eventListeners["open"]) + Len(eventListeners["close"])
       + Len(eventListeners["error"]) + Len(eventListeners["message"])
     < Cardinality(Kinds) + MaxListeners
  /\ Install(on(M, kind, callback))
  /\ op' = Op("on", Null, "none", Null, 0)
  /\ UNCHANGED <<hbTicks, uncleanRun, userClosed, autoRun, contentVars, logVars>>

\* a client removes a listener it registered
Off(kind, callback) ==
  /\ \E i \in 1..Len(eventListeners[kind]) : eventListeners[kind][i] = callback
  /\ Install(off(M, kind, callback))
  /\ op' = Op("off", Null, "none", Null, 0)
  /\ UNCHANGED <<hbTicks, uncleanRun, userClosed, autoRun, contentVars, logVars>>

\* What executeDesignerValidation can return or throw.
SandboxResults ==
  {executeDesignerValidation(tab, script) : tab \in TabStates, script \in ScriptEnds}

\* The sandbox results the concurrent flows draw from: the call is
\* rejected, the script reports a failure, or it succeeds.
FlowResults ==
  {executeDesignerValidation("complete", script) :
     script \in {"rejects", "failsWithoutError", "succeeds"}}

\* The tabs the concurrent flows draw from: no tab, or the active Designer tab.
FlowTabs == {<<>>, <<Tab(TRUE, "complete", DesignerUrl)>>}

\* The tabs the router specification draws from, one list for each way
\* findDesignerTab ends: no Designer tab, the active tab, no loaded tab,
\* the first loaded tab.
RouterTabs ==
  FlowTabs \cup {<<Tab(FALSE, "loading", DesignerUrl)>>,
                 <<Tab(TRUE, "complete", OtherUrl), Tab(FALSE, "complete", DesignerUrl)>>}

Router(maxR, frames, tabLists, results) ==
  \/ \E t \in 1..Len(sockets) : \E data \in frames : SocketMessage(t, data, maxR)
  \/ \E f \in 1..Len(flows) : \E tabs \in tabLists : FindDesignerTabReturns(f, tabs)
  \/ \E f \in 1..Len(flows) : \E result \in results : ExecuteReturns(f, result)

Manager(maxS) ==
  \/ Connect(maxS)
  \/ Disconnect
  \/ \E t \in 1..Len(sockets) : SocketOpen(t)
  \/ \E t \in 1..Len(sockets) : \E code \in {CleanCode, GoingAwayCode, NoStatusCode} :
       SocketClose(t, code)
  \/ \E t \in 1..Len(sockets) : SocketFail(t)
  \/ \E t \in 1..Len(sockets) : ConnectionTimeout(t)
  \/ ReconnectTimer(maxS)
  \/ \E i \in intervals : Heartbeat(i)

\* The connection manager alone: no inbound frames.
Next == Manager(MaxSockets)

Spec == Init /\ [][Next]_vars

\* The router on top of the connection manager.
NextRouter ==
  Manager(RouterSockets) \/ Router(MaxRequests, RequestFrames \cup OtherFrames, RouterTabs, SandboxResults)

SpecRouter == Init /\ [][NextRouter]_vars

\* Several requests in flight at once.
NextFlows == Manager(FlowSockets) \/ Router(MaxFlows, RequestIdFrames \cup {Malformed}, FlowTabs, FlowResults)

SpecFlows == Init /\ [][NextFlows]_vars

\* The connection manager with listeners of a further client of on() / off().
NextListeners ==
  \/ Manager(ListenerSockets)
  \/ \E t \in 1..Len(sockets) :
       \E data \in {Malformed, Message("ack", Undefined, Undefined)} : SocketMessage(t, data, 0)
  \/ \E kind \in Kinds : \E callback \in ClientListeners : On(kind, callback)
  \/ \E kind \in Kinds : \E callback \in ClientListeners : Off(kind, callback)

SpecListeners == Init /\ [][NextListeners]_vars

\* The router with the manager Connected (connect() called, the transport
\* open), over all the tabs the browser can have.
InitLocator ==
  /\ ws = 1
  /\ isConnected = TRUE
  /\ reconnectAttempts = 0
  /\ heartbeatInterval = 1
  /\ connectionPromise = Null
  /\ sockets = <<[readyState |-> "OPEN", closeCode |-> 0, timeout |-> FALSE,
                  promise |-> "true"]>>
  /\ intervals = {1}
  /\ reconnectTimers = 0
  /\ wire = <<[Frame("register", Undefined, Null, TRUE, "") EXCEPT !.n = 1, !.sock = 1]>>
  /\ msgSeq = 1
  /\ refused = {}
  /\ op = Op("open", 1, "none", Null, 0)
  /\ hbTicks = 0
  /\ uncleanRun = 0
  /\ userClosed = {}
  /\ autoRun = 0
  /\ flows = <<>>
  /\ requestCount = 0
  /\ successCount = 0
  /\ eventListeners = [kind \in Kinds |-> <<PopupListener>>]
  /\ emits = <<[kind |-> "open", called |-> <<1>>, thrown |-> FALSE, sent |-> 1]>>
  /\ lastFrame = "none"
  /\ ContentIdle
  /\ LogIdle

NextLocator == Router(MaxRequests, RequestFrames, TabLists, SandboxResults)

SpecLocator == InitLocator /\ [][NextLocator]_vars

\* Concurrent requests of which those with the correlation id HungId are
\* sent to a sandbox that never answers: their locator call may return,
\* their sandbox call never does.  The collaborator calls of every other
\* request complete.  The manager starts Connected, and the connection
\* events are those the browser raises: frames, heartbeats, the loss of
\* the transport and the reconnection that follows.
HungId == "r1"

FlowStep(f) ==
  /\ f \in 1..Len(flows)
  /\ \/ \E tabs \in FlowTabs : FindDesignerTabReturns(f, tabs)
     \/ /\ flows[f].requestId # HungId
        /\ \E result \in FlowResults : ExecuteReturns(f, result)

NextHang ==
  \/ \E t \in 1..Len(sockets) : SocketOpen(t)
  \/ \E t \in 1..Len(sockets) : SocketClose(t, GoingAwayCode)
  \/ \E t \in 1..Len(sockets) : SocketFail(t)
  \/ ReconnectTimer(FlowSockets)
  \/ \E i \in intervals : Heartbeat(i)
  \/ \E t \in 1..Len(sockets) : \E data \in RequestIdFrames : SocketMessage(t, data, MaxFlows)
  \/ \E f \in 1..MaxFlows : FlowStep(f)

\* a step of a flow whose collaborator calls complete
CompletingStep(f) ==
  /\ f \in 1..Len(flows)
  /\ flows[f].requestId # HungId
  /\ FlowStep(f)

SpecHang ==
  /\ InitLocator /\ [][NextHang]_vars
  /\ \A f \in 1..MaxFlows : WF_vars(CompletingStep(f))

\* The connection manager with timers that fire: a pending reconnect
\* timer's callback runs once its delay has elapsed.
NextReconnect == Manager(ReconnectSockets)

SpecReconnect ==
  Init /\ [][NextReconnect]_vars /\ WF_vars(ReconnectTimer(ReconnectSockets))

\* The manager losing its transports: connect() calls, handshakes that
\* succeed or fail, connections that are lost, and the reconnect timer.
NextExhaust ==
  \/ Connect(ExhaustSockets)
  \/ \E t \in 1..Len(sockets) : SocketOpen(t)
  \/ \E t \in 1..Len(sockets) : SocketFail(t)
  \/ ReconnectTimer(ExhaustSockets)

SpecExhaust == Init /\ [][NextExhaust]_vars

\* The router on top of a manager that can use up its reconnects: the
\* user's connect() calls create the first transports, the reconnect timer
\* the later ones.
NextCounter ==
  \/ Connect(RouterSockets)
  \/ Disconnect
  \/ \E t \in 1..Len(sockets) : SocketOpen(t)
  \/ \E t \in 1..Len(sockets) : SocketFail(t)
  \/ ReconnectTimer(MaxSockets)
  \/ Router(MaxRequests, {Message("wfdl_validation_request", "r1", Undefined)},
            FlowTabs, FlowResults)

SpecCounter == Init /\ [][NextCounter]_vars

\* ================================================================ claims
ResultFrames == {i \in 1..Len(wire) : wire[i].type = "validation_result"}

\* C1: every request delivered to the router gets exactly one send call with
\* a validation_result frame: none while the flow still awaits the locator
\* or the sandbox, one once it has ended, never two.
C1_ExactlyOneSend ==
  \A f \in 1..Len(flows) : flows[f].sends = IF flows[f].pc = "done" THEN 1 ELSE 0

\* Two flows have ended, one on the success path and one in the catch block.
C1_Witness ==
  \E f, g \in 1..Len(flows) :
    /\ flows[f].pc = "done" /\ flows[f].response.success
    /\ flows[g].pc = "done" /\ ~flows[g].response.success

\* C2: a request whose requestId no other request shares, and during whose
\* flow the connection stayed Connected, has exactly one response frame on
\* the wire once its flow has ended, and every response frame on the wire
\* carries the requestId of a request that was received.
C2_CorrelationIntegrity ==
  /\ \A f \in 1..Len(flows) :
       (/\ flows[f].pc = "done"
        /\ ~flows[f].lost
        /\ \A g \in 1..Len(flows) : g # f => flows[g].requestId # flows[f].requestId)
       => Cardinality({i \in ResultFrames : wire[i].requestId = flows[f].requestId}) = 1
  /\ \A i \in ResultFrames : \E f \in 1..Len(flows) : wire[i].requestId = flows[f].requestId

\* Two requests with distinct ids were answered while Connected, the second
\* before the first.
C2_Witness ==
  /\ Len(flows) = 2
  /\ flows[1].requestId # flows[2].requestId
  /\ \A f \in 1..2 : flows[f].pc = "done" /\ ~flows[f].lost
  /\ \E i, j \in ResultFrames : i < j /\ wire[i].flow = 2 /\ wire[j].flow = 1

\* C3: once a flow has ended, the frame it passed to send carries the
\* correlation id of its request: requestId, or id when requestId is absent.
C3_ResponseCarriesId ==
  \A f \in 1..Len(flows) :
    flows[f].pc = "done" =>
      flows[f].response.requestId = orElse(flows[f].requestId, flows[f].id)

\* C4: connect() called while the manager holds itself connected returns
\* true and creates no WebSocket.
C4_ConnectWhileConnected ==
  [][(op'.name = "connect" /\ isConnected) =>
       (op'.ret = "true" /\ Len(sockets') = Len(sockets))]_vars

\* connect() has just returned true on an open connection.
C4_Witness == op.name = "connect" /\ op.ret = "true" /\ Connected

\* C5: connect() called while the handshake of the manager's transport is in
\* progress returns the promise of the call that started that handshake and
\* creates no WebSocket.
C5_ConnectWhileConnecting ==
  [][(op'.name = "connect" /\ Connecting) =>
       (/\ Len(sockets') = Len(sockets)
        /\ op'.ret = "promise"
        /\ op'.promise = ws)]_vars

\* C6: at most one WebSocket is live (created and not yet closed).
C6_OneLiveTransport == Cardinality({t \in 1..Len(sockets) : Live(t)}) <= 1

\* C7: the close of a transport that disconnect() closed while Connected
\* leaves reconnectAttempts and the reconnect timers unchanged and creates
\* no WebSocket.
C7_DisconnectNoReconnect ==
  [][(op'.name \in {"close", "fail"} /\ op'.sock \in userClosed) =>
       (/\ reconnectAttempts' = reconnectAttempts
        /\ reconnectTimers' = reconnectTimers
        /\ Len(sockets') = Len(sockets))]_vars

UncleanCloseOp(o) == o.name \in {"close", "fail"} /\ o.code # CleanCode

\* C8 as stated: once maxReconnectAttempts unclean closes have followed one
\* another with no open between them, no reconnect timer starts a connection
\* attempt.
C8_NoAttemptAfterMaxCloses ==
  [][uncleanRun = maxReconnectAttempts =>
       ~(op'.name = "reconnectTimer" /\ Len(sockets') > Len(sockets))]_vars

\* C8 amended: each of the first maxReconnectAttempts consecutive unclean
\* closes schedules one reconnect; every later one schedules none and leaves
\* the counter alone.
C8_NoScheduleAfterMaxCloses ==
  [][UncleanCloseOp(op') =>
       IF uncleanRun >= maxReconnectAttempts
         THEN reconnectTimers' = reconnectTimers /\ reconnectAttempts' = reconnectAttempts
         ELSE reconnectTimers' = reconnectTimers + 1
              /\ reconnectAttempts' = reconnectAttempts + 1]_vars

\* One more unclean close than maxReconnectAttempts has happened in a row.
C8_Witness == UncleanCloseOp(op) /\ uncleanRun = maxReconnectAttempts + 1

\* C9: only onopen lowers reconnectAttempts, and every onopen leaves the
\* manager connected with the counter at 0.
C9_ResetOnlyOnOpen ==
  [][/\ reconnectAttempts' < reconnectAttempts => op'.name = "open"
     /\ op'.name = "open" => (reconnectAttempts' = 0 /\ isConnected')]_vars

\* The second transport has just opened after the first one closed uncleanly
\* (its reconnect timer is still pending), so the counter went from 1 to 0.
C9_Witness ==
  /\ op.name = "open" /\ op.sock = 2
  /\ Len(sockets) = 2 /\ sockets[1].readyState = "CLOSED"
  /\ reconnectTimers > 0
  /\ reconnectAttempts = 0

\* C10: a send() call returns true only if the manager holds itself connected
\* and the frame went to the transport's send; a call made while not connected
\* returns false and puts nothing on the wire; and no message whose send
\* returned false is on the wire, then or later.
C10_SendContract ==
  /\ [](\A i \in 1..Len(wire) : wire[i].n \notin refused)
  /\ [][msgSeq' = msgSeq + 1 =>
          LET n == msgSeq'
          IN /\ n \notin refused' =>
                  /\ isConnected' /\ ws' # Null
                  /\ \/ /\ Len(wire') = Len(wire) + 1
                        /\ wire'[Len(wire')].n = n
                        /\ wire'[Len(wire')].sock = ws'
                     \/ /\ wire' = wire
                        /\ sockets'[ws'].readyState \in {"CLOSING", "CLOSED"}
             /\ n \in refused' => wire' = wire
             /\ ~isConnected' => n \in refused']_vars

\* A response was refused while disconnected, and a later frame went out on
\* the next connection.
C10_Witness ==
  /\ Len(flows) = 1 /\ flows[1].response.ret = "false"
  /\ ~isConnected \/ Connected
  /\ \E n \in refused : \E i \in 1..Len(wire) : wire[i].n > n /\ wire[i].sock = 2


\* C11: disconnect() called while the manager does not hold itself connected
\* returns at once: the transports (with the timeouts and promises of their
\* attempts), isConnected, connectionPromise, reconnectAttempts, the
\* heartbeat timer and the pending timers are as before.
C11_DisconnectNoop ==
  [][(op'.name = "disconnect" /\ ~isConnected) =>
       (/\ op'.ret = "noop"
        /\ UNCHANGED <<ws, isConnected, connectionPromise, reconnectAttempts,
                       heartbeatInterval, intervals, reconnectTimers, sockets>>)]_vars

\* disconnect() has just returned during a handshake, with a reconnect
\* timer pending.
C11_Witness ==
  /\ op.name = "disconnect" /\ op.ret = "noop"
  /\ Connecting /\ sockets[ws].timeout /\ connectionPromise = ws
  /\ reconnectTimers > 0

C13_ListenerIsolation ==
  \A e \in 1..Len(emits) :
    /\ emits[e].called = [i \in 1..Len(eventListeners[emits[e].kind]) |-> i]
    /\ ~emits[e].thrown


\* C14: a heartbeat interval timer is active only while the manager holds
\* itself connected.
C14_HeartbeatOnlyConnected == intervals # {} => isConnected


\* C15: the open of a transport puts exactly one frame on the wire, a
\* register frame on that transport, before the 'open' listeners are called;
\* and on each transport the register frame is the first frame and the only
\* register frame.
C15_RegisterOnOpen ==
  /\ [](\A i, j \in 1..Len(wire) :
          (i < j /\ wire[i].sock = wire[j].sock) =>
             (wire[i].type = "register" /\ wire[j].type # "register"))
  /\ [][op'.name = "open" =>
          /\ Len(wire') = Len(wire) + 1
          /\ SubSeq(wire', 1, Len(wire)) = wire
          /\ wire'[Len(wire')].type = "register"
          /\ wire'[Len(wire')].sock = op'.sock
          /\ \A e \in 1..Len(emits') :
                emits'[e].kind = "open" => emits'[e].sent >= wire'[Len(wire')].n]_vars


\* C16: when the connection timeout of an attempt fires, the transport of
\* that attempt is closed (it can no longer open) and no other transport is
\* touched.
C16_TimeoutClosesOwnTransport ==
  [][op'.name = "timeout" =>
       /\ sockets'[op'.sock].readyState \in {"CLOSING", "CLOSED"}
       /\ \A u \in 1..Len(sockets) :
            u # op'.sock => sockets'[u].readyState = sockets[u].readyState]_vars


\* C17: a frame that does not parse calls no 'message' listener and leaves
\* the connection and the router as they were; a well-formed frame handled
\* in the step after it is passed to every 'message' listener, and a
\* request among them starts its flow.
C17_MalformedFrameIsolation ==
  [][/\ lastFrame' = "malformed" =>
          /\ emits' = <<>>
          /\ UNCHANGED <<ws, isConnected, reconnectAttempts, heartbeatInterval,
                         connectionPromise, sockets, intervals, reconnectTimers,
                         wire, msgSeq, flows, requestCount, eventListeners>>
     /\ lastFrame' = "parsedAfterMalformed" =>
          /\ Len(emits') = 1
          /\ emits'[1].kind = "message"
          /\ emits'[1].called = [i \in 1..Len(eventListeners["message"]) |-> i]
          /\ op'.ret = "wfdl_validation_request" =>
                /\ Len(flows') = Len(flows) + 1
                /\ requestCount' = requestCount + 1
                /\ flows'[Len(flows')].pc = "findDesignerTab"]_vars

\* A request has just been routed, the step before having dropped a
\* malformed frame.
C17_Witness ==
  /\ lastFrame = "parsedAfterMalformed"
  /\ op.name = "message" /\ op.ret = "wfdl_validation_request"
  /\ Len(flows) = 1 /\ flows[1].pc = "findDesignerTab" /\ Connected


\* A tab qualifies as a target when it is loaded, not discarded and shows a
\* Designer origin (by the URL patterns or by isDesignerPage).
Qualifies(tab) ==
  /\ tab.status = "complete"
  /\ ~tab.discarded
  /\ matchesPatterns(tab.url) \/ isDesignerPage(tab.url)

NoneQualifies(tabs) == \A i \in 1..Len(tabs) : ~Qualifies(tabs[i])

\* The injected script was executed for flow f: the flow went past the
\* checks of chrome.tabs.get.
ScriptRun(f) ==
  /\ flows[f].pc = "done" /\ flows[f].tabId # Null
  /\ flows[f].response.error \notin {NoTab, NotLoaded, Discarded}

\* The target of flow f was, when the validation read it, as the locator
\* had seen it.
TargetUnchanged(f) ==
  flows[f].tabId # Null =>
    LET tab == flows[f].tabs[flows[f].tabId]
        error == flows[f].response.error
    IN IF tab.status # "complete" THEN error = NotLoaded
       ELSE IF tab.discarded THEN error = Discarded
       ELSE error \notin {NoTab, NotLoaded, Discarded}

\* C18: a flow that found no qualifying tab, the tabs staying as they were,
\* ends with one response that carries the request's correlation id,
\* success false and an error text, and without the script having run.
C18_NoTargetAnswer ==
  \A f \in 1..Len(flows) :
    (flows[f].pc = "done" /\ NoneQualifies(flows[f].tabs) /\ TargetUnchanged(f)) =>
      /\ flows[f].sends = 1
      /\ flows[f].response.requestId = orElse(flows[f].requestId, flows[f].id)
      /\ ~flows[f].response.success
      /\ flows[f].response.error # ""
      /\ ~ScriptRun(f)


\* Both tests of config.js classify every tab's origin alike.
Unambiguous(tabs) ==
  \A i \in 1..Len(tabs) : matchesPatterns(tabs[i].url) = isDesignerPage(tabs[i].url)

\* The selection policy: the active tab if it qualifies, otherwise the
\* first tab that qualifies, otherwise none.
PolicyTarget(tabs) ==
  LET q == {i \in 1..Len(tabs) : Qualifies(tabs[i])}
      a == {i \in q : tabs[i].active /\ tabs[i].currentWindow}
  IN IF a # {} THEN CHOOSE i \in a : TRUE
     ELSE IF q # {} THEN CHOOSE i \in q : \A j \in q : i <= j
     ELSE Null

\* C19: once the locator has returned, the target of the flow is the one the
\* selection policy names if a tab qualifies; if none qualifies the locator
\* has failed, or its target is one the validation will refuse.
C19_TargetSelection ==
  \A f \in 1..Len(flows) :
    (flows[f].pc # "findDesignerTab" /\ Unambiguous(flows[f].tabs)) =>
      IF PolicyTarget(flows[f].tabs) # Null
        THEN flows[f].tabId = PolicyTarget(flows[f].tabs)
        ELSE flows[f].tabId # Null => ~Qualifies(flows[f].tabs[flows[f].tabId])


\* C20: a flow that was in flight when the connection left Connected ends
\* with its one send call; the response of a flow whose send returned false
\* is never on the wire; and no flow has two response frames on the wire.
C20_DroppedNeverSent ==
  \A f \in 1..Len(flows) :
    LET frames == {i \in ResultFrames : wire[i].flow = f}
    IN /\ Cardinality(frames) <= 1
       /\ flows[f].pc # "done" => frames = {}
       /\ (flows[f].pc = "done" /\ flows[f].lost) => flows[f].sends = 1
       /\ (flows[f].pc = "done" /\ flows[f].response.ret = "false") => frames = {}

\* A flow lost its connection, its send returned false, and the manager has
\* since reconnected and sent the response of another flow.
C20_Witness ==
  \E f, g \in 1..Len(flows) :
    /\ flows[f].pc = "done" /\ flows[f].lost /\ flows[f].response.ret = "false"
    /\ Connected /\ ws = 2
    /\ \E i \in ResultFrames : wire[i].flow = g /\ wire[i].sock = 2


\* A locator or sandbox call of a flow has just thrown.
FlowFailed(o) == o.name \in {"findDesignerTab", "executeDesignerValidation"} /\ o.ret = "thrown"

\* C21: the step in which a flow fails (the locator or the sandbox call
\* throws) leaves the connection as it was and changes no other flow.
C21_FailureIsolation ==
  [][FlowFailed(op') =>
       /\ UNCHANGED <<ws, isConnected, reconnectAttempts, heartbeatInterval, intervals,
                      connectionPromise, sockets, reconnectTimers>>
       /\ Len(flows') = Len(flows)
       /\ \A g \in 1..Len(flows) : g # op'.sock => flows'[g] = flows[g]]_vars

\* A flow has just failed on an open connection while another flow is
\* awaiting its sandbox call.
C21_Witness ==
  /\ FlowFailed(op) /\ Connected /\ heartbeatInterval # Null
  /\ \E g \in 1..Len(flows) : g # op.sock /\ flows[g].pc = "executeDesignerValidation"


\* C22: while the sandbox call of the requests with HungId never returns
\* (and their locator call may never return either), every other request,
\* received before or after them, ends with its send call.
C22_OthersAnswered ==
  \A f \in 1..MaxFlows :
    (Len(flows) >= f /\ flows[f].requestId # HungId)
      ~> (Len(flows) >= f /\ flows[f].pc = "done" /\ flows[f].sends = 1)

\* The first request hangs in its sandbox call; the transport was lost
\* and replaced meanwhile, and the second request, received after the first,
\* was answered on the new connection.
C22_Witness ==
  /\ Len(flows) = 2
  /\ flows[1].requestId = HungId /\ flows[1].pc = "executeDesignerValidation"
  /\ flows[1].lost
  /\ flows[2].pc = "done"
  /\ Connected /\ ws = 2
  /\ \E i \in ResultFrames : wire[i].flow = 2 /\ wire[i].sock = 2


\* C23: the promise connect() returns for an attempt is never rejected: a
\* failed attempt resolves it with false.
C23_ConnectNeverRejects ==
  \A t \in 1..Len(sockets) : sockets[t].promise # "rejected"


\* C24: the step in which the sandbox call of a flow throws (the tab is
\* gone, not loaded or discarded by then, executeScript rejects, gives no
\* result, or gives a result reporting failure) passes to send a response
\* with success false and an error text.
C24_SandboxFailureAnswer ==
  [][(op'.name = "executeDesignerValidation" /\ op'.ret = "thrown") =>
       LET f == op'.sock
       IN /\ flows'[f].pc = "done"
          /\ flows'[f].sends = 1
          /\ ~flows'[f].response.success
          /\ flows'[f].response.error # ""
          /\ wire'[Len(wire')].type = "validation_result"
          /\ wire'[Len(wire')].flow = f
          /\ ~wire'[Len(wire')].success
          /\ wire'[Len(wire')].error = flows'[f].response.error]_vars

\* A flow whose target qualified when the locator chose it has failed
\* because the tab was discarded before the validation ran.
C24_Witness ==
  \E f \in 1..Len(flows) :
    /\ op.name = "executeDesignerValidation" /\ op.sock = f /\ op.ret = "thrown"
    /\ Qualifies(flows[f].tabs[flows[f].tabId])
    /\ flows[f].response.error = Discarded


\* C25: the response of every flow that has ended is a validation_result
\* with the request's correlation id, a success flag and a timestamp; it
\* carries the validation data exactly when success is true and an error
\* text exactly when success is false.
C25_UniformShape ==
  \A f \in 1..Len(flows) :
    flows[f].pc = "done" =>
      LET r == flows[f].response
      IN /\ r.requestId = orElse(flows[f].requestId, flows[f].id)
         /\ "success" \in r.result
         /\ "timestamp" \in r.result
         /\ "validationResult" \in r.result <=> r.success
         /\ ("error" \in r.result /\ r.error # "") <=> ~r.success


\* C26: a frame that parses and whose type is none of those the popup
\* handles puts nothing on the wire, makes no send call, starts no flow and
\* leaves the connection and the counters as they were.
C26_UnknownKindIgnored ==
  [][(op'.name = "message" /\ op'.ret = "unknown") =>
       UNCHANGED <<wire, msgSeq, refused, flows, requestCount, successCount,
                   ws, isConnected, reconnectAttempts, heartbeatInterval,
                   connectionPromise, sockets, intervals, reconnectTimers>>]_vars

\* A frame of unknown type has just been handled on an open connection
\* while a request was in flight.
C26_Witness ==
  /\ op.name = "message" /\ op.ret = "unknown"
  /\ Connected /\ heartbeatInterval # Null
  /\ Len(flows) = 1 /\ flows[1].pc # "done"
  /\ Len(emits) = 1 /\ emits[1].kind = "message"


\* The reconnect timer cannot run: its connect() would create one transport
\* more than the bound allows.
AtSocketBound == connectOpens(M) /\ Len(sockets) = ReconnectSockets

\* C27: an unclean close that finds reconnectAttempts below
\* maxReconnectAttempts adds one to it and schedules one reconnect; every
\* scheduled reconnect timer fires; and when it fires it starts a connection
\* attempt unless the manager holds itself connected or holds the pending
\* outcome of a connect() in progress.
C27_UncleanCloseReconnects ==
  /\ [][(UncleanCloseOp(op') /\ reconnectAttempts < maxReconnectAttempts) =>
          (/\ reconnectAttempts' = reconnectAttempts + 1
           /\ reconnectTimers' = reconnectTimers + 1)]_vars
  /\ [][op'.name = "reconnectTimer" =>
          (/\ reconnectTimers' = reconnectTimers - 1
           /\ \/ Len(sockets') = Len(sockets) + 1 /\ sockets'[ws'].readyState = "CONNECTING"
              \/ isConnected
              \/ connectionPromise # Null)]_vars
  /\ \A n \in 1..ReconnectSockets :
        (reconnectTimers = n) ~> (reconnectTimers < n \/ AtSocketBound)

\* The reconnect timer set by the unclean close of the first transport has
\* just started the attempt on a second one.
C27_Witness ==
  /\ op.name = "reconnectTimer" /\ op.sock = 2
  /\ sockets[1].readyState = "CLOSED" /\ sockets[2].readyState = "CONNECTING"
  /\ reconnectAttempts = 1 /\ reconnectTimers = 0


\* C28: the reconnect timer starts at most maxReconnectAttempts connection
\* attempts between two successful opens (or from start-up).
C28_BoundedAutomaticAttempts == autoRun <= maxReconnectAttempts


\* C29: a flow that has not ended is awaiting its locator or its sandbox
\* call; the step in which the sandbox call returns or throws, or the
\* locator call throws, makes the flow's one send call and ends the flow,
\* whether that send returned true or false.
C29_FlowTerminates ==
  /\ [](\A f \in 1..Len(flows) :
          flows[f].pc \in {"findDesignerTab", "executeDesignerValidation", "done"})
  /\ [][(op'.name = "executeDesignerValidation" \/ FlowFailed(op')) =>
          LET f == op'.sock
          IN /\ flows[f].pc # "done" /\ flows[f].sends = 0
             /\ flows'[f].pc = "done" /\ flows'[f].sends = 1
             /\ msgSeq' = msgSeq + 1
             /\ flows'[f].response.ret = IF msgSeq' \in refused' THEN "false" ELSE "true"]_vars

\* Every collaborator call has completed and no request is in flight: one
\* flow ended with a send that returned true, the other with one that
\* returned false.
C29_Witness ==
  /\ Len(flows) = 2
  /\ \A f \in 1..2 : flows[f].pc = "done"
  /\ flows[1].response.ret = "false" /\ flows[2].response.ret = "true"


\* C30: a request starts a flow of its own whatever requestId the flows in
\* flight have, and leaves those flows as they were; two flows with the same
\* requestId each end with one send call of a response with that id, and
\* when the connection stayed Connected for both, each has its own response
\* frame with that id on the wire.
C30_DuplicateIdIndependent ==
  /\ [][(op'.name = "message" /\ op'.ret = "wfdl_validation_request") =>
          (/\ Len(flows') = Len(flows) + 1
           /\ SubSeq(flows', 1, Len(flows)) = flows
           /\ flows'[Len(flows')].pc = "findDesignerTab"
           /\ flows'[Len(flows')].sends = 0)]_vars
  /\ [](\A f, g \in 1..Len(flows) :
          (/\ f < g /\ flows[f].requestId = flows[g].requestId
           /\ flows[f].pc = "done" /\ flows[g].pc = "done") =>
            /\ flows[f].sends = 1 /\ flows[g].sends = 1
            /\ flows[f].response.requestId = flows[f].requestId
            /\ flows[g].response.requestId = flows[g].requestId
            /\ (~flows[f].lost /\ ~flows[g].lost) =>
                  \A h \in {f, g} :
                    Cardinality({j \in ResultFrames :
                                   /\ wire[j].flow = h
                                   /\ wire[j].requestId = flows[f].requestId}) = 1)

\* Two requests with the same requestId have been answered on an open
\* connection, the second one, which arrived while the first was in flight,
\* before the first.
C30_Witness ==
  /\ Len(flows) = 2 /\ flows[1].requestId = flows[2].requestId
  /\ flows[1].pc = "done" /\ flows[2].pc = "done"
  /\ ~flows[1].lost /\ ~flows[2].lost
  /\ \E i, j \in ResultFrames :
        /\ i < j /\ wire[i].flow = 2 /\ wire[j].flow = 1
        /\ wire[i].requestId = wire[j].requestId


\* C31: the close or the failure of a transport that is no longer this.ws
\* leaves isConnected, connectionPromise, the heartbeat timer, the reconnect
\* timers and reconnectAttempts as they were; and isConnected holds only
\* while this.ws is open.
C31_SupersededTransportIgnored ==
  /\ [][(op'.name \in {"close", "fail"} /\ op'.sock # ws) =>
          UNCHANGED <<isConnected, connectionPromise, heartbeatInterval, intervals,
                      reconnectTimers, reconnectAttempts>>]_vars
  /\ [](isConnected => (ws # Null /\ sockets[ws].readyState = "OPEN"))


\* C32: while this.ws is a transport that disconnect() closed (no connect()
\* has created a transport since) and no transport has closed uncleanly
\* since that transport opened, only a connect() call creates a transport.
C32_NoAttemptAfterDisconnect ==
  [][(ws \in userClosed /\ uncleanRun = 0 /\ Len(sockets') > Len(sockets)) =>
       op'.name = "connect"]_vars


\* C33: at most one heartbeat interval timer is active.
C33_OneHeartbeatTimer == Cardinality(intervals) <= 1


\* C34: reconnectAttempts stays between 0 and maxReconnectAttempts, and
\* only the open and the close of a transport change it.
C34_CounterOwnedByManager ==
  /\ [](reconnectAttempts \in 0..maxReconnectAttempts)
  /\ [][reconnectAttempts' # reconnectAttempts => op'.name \in {"open", "close", "fail"}]_vars

\* A request has been answered after the counter reached its maximum and a
\* further unclean close left it there.
C34_Witness ==
  /\ reconnectAttempts = maxReconnectAttempts /\ uncleanRun > maxReconnectAttempts
  /\ Len(flows) = 1 /\ flows[1].pc = "done" /\ flows[1].sends = 1


\* C35: for the tabs a flow's locator has read, the popup's selection and
\* the background's selection both fail, or both name the same tab.
C35_SelectionsAgree ==
  \A f \in 1..Len(flows) :
    flows[f].pc # "findDesignerTab" =>
      LET p == popupSelection(flows[f].tabs)
          b == handleGetWFDLRequest(flows[f].tabs)
      IN /\ p.ok = b.ok
         /\ p.tabId = b.tabId


\* ------------------------------------------------------- content script
MaxCalls == 2
MaxClock == 2

\* the two copies of the content script in the repository
Part003 == "part_003"
GeminiCopy == "gemini-function-config.js"
ContentScripts == {Part003, GeminiCopy}

CommonTypes == {"ping", "get_wfdl", "test_validation", "debug_page", "get_designer_status"}
ScreenshotTypes == {"prepare_component_screenshot", "crop_component_screenshot",
                    "cleanup_component_screenshot"}
UnknownType == "unknown_type"
MessageTypes == CommonTypes \cup ScreenshotTypes \cup {UnknownType}

\* the messages the background script sends; only get_wfdl carries a requestId
ContentMessages ==
  [type : {"get_wfdl"}, requestId : {"r1", "r2"}]
    \cup [type : MessageTypes \ {"get_wfdl"}, requestId : {Undefined}]

\* what the injected script meets on the page: wf.exportTrainingData returns,
\* is missing, throws, or the page refuses to run the script
PageOutcomes == {"data", "unavailable", "throws", "blocked"}

NoResultReceived == "No get WFDL result received"
NotAvailable == "wf.exportTrainingData not available in page context"
PageError == "page error"
UnknownMessageType == "Unknown message type"
MessageNotDefined == "message is not defined"
NoExecuteScript == "this.executeScript is not a function"

\* the objects handed to sendResponse: data names the execution whose
\* export the response carries (0: none)
SuccessResponse(requestId, data) ==
  [success |-> TRUE, requestId |-> requestId, data |-> data, error |-> ""]

FailureResponse(error, requestId) ==
  [success |-> FALSE, requestId |-> requestId, data |-> 0, error |-> error]

resolveWith(data) == [state |-> "resolved", data |-> data, error |-> ""]
rejectWith(error) == [state |-> "rejected", data |-> 0, error |-> error]
Pending == [state |-> "pending", data |-> 0, error |-> ""]

\* a handleMessage call: slot is the window property its injected script
\* writes, outcome what that script met, settled the promise of the
\* read-back, threw whether the type's handler threw into handleMessage,
\* overlapped whether the call's extraction was pending together with another
Call(message) ==
  [type |-> message.type, requestId |-> message.requestId, pc |-> "received",
   slot |-> <<"none", 0>>, started |-> 0, outcome |-> "none", settled |-> Pending,
   threw |-> FALSE, overlapped |-> FALSE, responses |-> <<>>]

sendResponse(c, response) == [c EXCEPT !.responses = Append(@, response)]

\* window[id] = value
setSlot(w, id, value) ==
  [i \in DOMAIN w \cup {id} |-> IF i = id THEN value ELSE w[i]]

\* delete window[id]
deleteSlot(w, id) == [i \in DOMAIN w \ {id} |-> w[i]]

\* `wfdl_result_${Date.now()}` and `wfdl_check_${Date.now()}`
resultId(prefix, now) == <<prefix, now>>

\* the injected script of executeGetWFDLInPageContext, run by appendChild
\* for the k-th call
extractionScript(w, id, k, outcome) ==
  CASE outcome = "data" -> setSlot(w, id, [success |-> TRUE, data |-> k, error |-> ""])
    [] outcome = "unavailable" ->
         setSlot(w, id, [success |-> FALSE, data |-> 0, error |-> NotAvailable])
    [] outcome = "throws" ->
         setSlot(w, id, [success |-> FALSE, data |-> 0, error |-> PageError])
    [] OTHER -> w

\* the injected script of checkGetWFDLAvailability
availabilityScript(w, id, k, outcome) ==
  IF outcome = "blocked" THEN w
  ELSE setSlot(w, id, [success |-> outcome = "data", data |-> 0, error |-> ""])

\* executeGetWFDLInPageContext up to setTimeout
executeGetWFDLInPageContext(c, w, k, now, outcome) ==
  LET id == resultId("wfdl_result", now)
  IN [call |-> [c EXCEPT !.pc = "timer", !.slot = id, !.started = now, !.outcome = outcome],
      window |-> extractionScript(w, id, k, outcome)]

\* checkGetWFDLAvailability up to setTimeout
checkGetWFDLAvailability(c, w, k, now, outcome) ==
  LET id == resultId("wfdl_check", now)
  IN [call |-> [c EXCEPT !.pc = "timer", !.slot = id, !.started = now, !.outcome = outcome],
      window |-> availabilityScript(w, id, k, outcome)]

\* the setTimeout callback of executeGetWFDLInPageContext
readResult(c, w) ==
  LET settled == IF c.slot \notin DOMAIN w THEN rejectWith(NoResultReceived)
                 ELSE IF w[c.slot].success THEN resolveWith(w[c.slot].data)
                 ELSE rejectWith(w[c.slot].error)
  IN [call |-> [c EXCEPT !.settled = settled], window |-> deleteSlot(w, c.slot)]

\* the setTimeout callback of checkGetWFDLAvailability: always resolves
readAvailability(c, w) ==
  [call |-> [c EXCEPT !.settled = resolveWith(0)], window |-> deleteSlot(w, c.slot)]

\* the catch block of handleMessage
handleMessageCatch_silent(c, error) == [c EXCEPT !.threw = TRUE, !.pc = "done"]

handleMessageCatch(c, error) ==
  sendResponse([c EXCEPT !.threw = TRUE, !.pc = "done"], FailureResponse(error, Undefined))

\* executeGetWFDL after the read-back settled: the result object it returns
\* or the message of the Error it throws
executeGetWFDL(settled, requestId) ==
  IF settled.state = "resolved"
    THEN [ok |-> TRUE, result |-> SuccessResponse(requestId, settled.data)]
    ELSE [ok |-> FALSE, result |-> FailureResponse("getting WFDL failed: " \o settled.error, Undefined)]

\* handleGetWFDLRequest of the content script after executeGetWFDL settled
afterExecuteGetWFDL(c) ==
  LET r == executeGetWFDL(c.settled, c.requestId)
  IN sendResponse([c EXCEPT !.pc = "done"],
                  IF r.ok THEN r.result ELSE FailureResponse(r.result.error, c.requestId))

\* handleTestValidation after executeGetWFDL settled: requestId defaults to null
afterTestValidation(c) ==
  LET r == executeGetWFDL(c.settled, "null")
  IN sendResponse([c EXCEPT !.pc = "done"], r.result)

\* handlePing, handleStatusRequest and handleDebugRequest (first copy) after
\* checkGetWFDLAvailability resolved
afterCheckGetWFDLAvailability(c) ==
  sendResponse([c EXCEPT !.pc = "done"], SuccessResponse(Undefined, 0))

\* handleMessage up to its first suspension, for the k-th call
handleMessage(copy, message, w, k, now, outcome) ==
  LET c == Call(message)
      type == message.type
  IN CASE type \in {"ping", "get_designer_status"} ->
            checkGetWFDLAvailability(c, w, k, now, outcome)
       [] type = "get_wfdl" /\ copy = Part003 ->
            \* handleGetWFDLRequest(sendResponse) is called with (message,
            \* sendResponse): its body reads the undeclared name message,
            \* in the try block and again in the catch block
            [call |-> handleMessageCatch(c, MessageNotDefined), window |-> w]
       [] type = "get_wfdl" /\ copy = GeminiCopy ->
            executeGetWFDLInPageContext(c, w, k, now, outcome)
       [] type = "test_validation" ->
            executeGetWFDLInPageContext(c, w, k, now, outcome)
       [] type = "debug_page" /\ copy = Part003 ->
            checkGetWFDLAvailability(c, w, k, now, outcome)
       [] (type = "debug_page" \/ type \in ScreenshotTypes) /\ copy = GeminiCopy ->
            \* this.executeScript is not defined: the handler's own catch answers
            [call |-> sendResponse([c EXCEPT !.pc = "done"],
                                   FailureResponse(NoExecuteScript, Undefined)),
             window |-> w]
       [] OTHER ->
            [call |-> sendResponse([c EXCEPT !.pc = "done"],
                                   FailureResponse(UnknownMessageType, Undefined)),
             window |-> w]

\* the read-back timer of a call fires and the handler runs to its end
afterTimer(c, w) ==
  IF c.slot[1] = "wfdl_check"
    THEN LET r == readAvailability(c, w)
         IN [call |-> afterCheckGetWFDLAvailability(r.call), window |-> r.window]
    ELSE LET r == readResult(c, w)
         IN [call |-> IF c.type = "get_wfdl" THEN afterExecuteGetWFDL(r.call)
                      ELSE afterTestValidation(r.call),
             window |-> r.window]

Extracting(c) == c.pc = "timer" /\ c.slot[1] = "wfdl_result"

InitContent ==
  /\ PopupInit
  /\ LogIdle
  /\ contentScript \in ContentScripts
  /\ clock = 0
  /\ window = NoSlots
  /\ calls = <<>>

\* chrome.runtime.onMessage delivers a message to the content script
ContentMessage(message, outcome) ==
  /\ Len(calls) < MaxCalls
  /\ LET k == Len(calls) + 1
         r == handleMessage(contentScript, message, window, k, clock, outcome)
         together == Extracting(r.call) /\ \E j \in 1..Len(calls) : Extracting(calls[j])
         old == [j \in 1..Len(calls) |->
                   IF together /\ Extracting(calls[j])
                     THEN [calls[j] EXCEPT !.overlapped = TRUE] ELSE calls[j]]
     IN /\ calls' = Append(old, [r.call EXCEPT !.overlapped = together])
        /\ window' = r.window
  /\ UNCHANGED <<contentScript, clock, popupVars, logVars>>

\* the 100 ms timer of the k-th call fires: timers of equal delay fire in
\* the order they were set, and not in the instant they were set
ReadBackTimer(k) ==
  /\ calls[k].pc = "timer"
  /\ clock > calls[k].started
  /\ \A j \in 1..(k - 1) : calls[j].pc # "timer"
  /\ LET r == afterTimer(calls[k], window)
     IN /\ calls' = [calls EXCEPT ![k] = r.call]
        /\ window' = r.window
  /\ UNCHANGED <<contentScript, clock, popupVars, logVars>>

\* Date.now() changes
Tick ==
  /\ clock < MaxClock
  /\ clock' = clock + 1
  /\ UNCHANGED <<contentScript, window, calls, popupVars, logVars>>

NextContent ==
  \/ \E message \in ContentMessages, outcome \in PageOutcomes : ContentMessage(message, outcome)
  \/ \E k \in 1..Len(calls) : ReadBackTimer(k)
  \/ Tick

SpecContent == InitContent /\ [][NextContent]_vars

\* C36: a handleMessage call never answers twice, and a call that has run
\* to its end has answered exactly once.
C36_RespondsExactlyOnce ==
  \A k \in 1..Len(calls) :
    /\ Len(calls[k].responses) <= 1
    /\ calls[k].pc = "done" => Len(calls[k].responses) = 1

\* two calls ran to their end, one whose handler threw and one whose
\* handler returned after its read-back timer
C36_Witness ==
  /\ Len(calls) = 2
  /\ calls[1].pc = "done" /\ calls[1].threw
  /\ calls[2].pc = "done" /\ ~calls[2].threw /\ calls[2].settled.state # "pending"
  /\ Len(calls[2].responses) = 1


\* C37: the answer to a get_wfdl message whose extraction succeeded on the
\* page has success true, the data of that extraction and the message's
\* requestId; a failure answer is given only to a message whose extraction
\* failed.
C37_GetWFDLAnswer ==
  \A k \in 1..Len(calls) :
    (calls[k].type = "get_wfdl" /\ calls[k].pc = "done") =>
      LET response == calls[k].responses[1]
      IN /\ calls[k].outcome = "data" =>
              /\ response.success
              /\ response.data = k
              /\ response.requestId = calls[k].requestId
         /\ ~response.success => calls[k].outcome \in PageOutcomes \ {"data"}

\* C38: an extraction that was pending together with another one settles
\* with what its own injected script met: its own data, or its own error.
C38_OwnResult ==
  \A k \in 1..Len(calls) :
    (calls[k].overlapped /\ calls[k].settled.state # "pending") =>
      CASE calls[k].outcome = "data" -> calls[k].settled = resolveWith(k)
        [] calls[k].outcome = "unavailable" -> calls[k].settled = rejectWith(NotAvailable)
        [] calls[k].outcome = "throws" -> calls[k].settled = rejectWith(PageError)
        [] OTHER -> calls[k].settled = rejectWith(NoResultReceived)


\* ------------------------------------------------------------ popup log
maxEntries == 50
MaxLogCalls == 53
MaxInitialNodes == 2

\* what popup.html may put inside #activityLog before the first call: text
\* nodes (white space) and elements
TextNode == [kind |-> "text", n |-> 0]
Element(n) == [kind |-> "element", n |-> n]

RECURSIVE children(_)
\* activityLog.children: the child nodes that are elements
children(nodes) ==
  IF nodes = <<>> THEN <<>>
  ELSE IF Head(nodes).kind = "element" THEN <<Head(nodes)>> \o children(Tail(nodes))
  ELSE children(Tail(nodes))

RECURSIVE limit_fromEnd(_)
\* the limiting loop removing activityLog.lastChild
limit_fromEnd(nodes) ==
  IF Len(children(nodes)) > maxEntries
    THEN limit_fromEnd(SubSeq(nodes, 1, Len(nodes) - 1))
    ELSE nodes

RECURSIVE limit(_)
\* while (activityLog.children.length > maxEntries)
\*   activityLog.removeChild(activityLog.firstChild)
limit(nodes) ==
  IF Len(children(nodes)) > maxEntries THEN limit(Tail(nodes)) ELSE nodes

addLogEntry(nodes, logEntry) == limit(Append(nodes, logEntry))

\* the initial markup: up to MaxInitialNodes nodes, its elements numbered
\* in document order
InitialMarkup ==
  UNION {[1..n -> {"text", "element"}] : n \in 0..MaxInitialNodes}

markup(kinds) ==
  [i \in 1..Len(kinds) |->
     IF kinds[i] = "text" THEN TextNode
     ELSE Element(Cardinality({j \in 1..i : kinds[j] = "element"}))]

InitLog ==
  /\ PopupInit
  /\ ContentIdle
  /\ \E kinds \in InitialMarkup :
       /\ activityLog = markup(kinds)
       /\ logged = children(markup(kinds))

\* addLogEntry(message, level) called by the popup
AddLogEntry ==
  /\ Len(logged) < MaxLogCalls
  /\ LET logEntry == Element(Len(logged) + 1)
     IN /\ activityLog' = addLogEntry(activityLog, logEntry)
        /\ logged' = Append(logged, logEntry)
  /\ UNCHANGED <<popupVars, contentVars>>

NextLog == AddLogEntry

SpecLog == InitLog /\ [][NextLog]_vars

\* the last n elements of a sequence
Last(seq, n) == SubSeq(seq, Len(seq) - n + 1, Len(seq))

\* C39: the log never shows more than maxEntries entries, and the entries it
\* shows are the most recently added ones, in the order they were added.
C39_LogBounded ==
  /\ [](Len(children(activityLog)) <= maxEntries)
  /\ [][children(activityLog') =
          Last(logged', IF Len(logged') < maxEntries THEN Len(logged') ELSE maxEntries)]_vars

\* the log is full and entries have been removed from it
C39_Witness ==
  /\ Len(children(activityLog)) = maxEntries
  /\ Len(logged) > maxEntries + 1
  /\ activityLog[1].kind = "element"

====
